---- MODULE Spec2Model ----
(***************************************************************************)
(* Model of the download orchestration core of astrbot_plugin_jmcomic_core *)
(* (src/core.py: ComicDownloader; src/main.py: JMCosmosPlugin).            *)
(*                                                                         *)
(* Execution model.  The plugin's command handlers and download_comic /    *)
(* download_cover are coroutines of ONE asyncio event loop: a coroutine    *)
(* keeps the loop from the point it is resumed until its next await or     *)
(* yield (variable loop).  _download_sync and _convert_to_pdf run on the   *)
(* ThreadPoolExecutor's threads and interleave freely with the loop and    *)
(* with each other.  Every blocking call (backend, quota manager, file     *)
(* system) is one step whose outcome is chosen by the environment.         *)
(***************************************************************************)
EXTENDS Integers, Sequences, FiniteSets, TLC

(* ------------------------------ bounds -------------------------------- *)
\* number of command handlers (coroutines) that may be active at once
NumCallers == 2
\* longest configured endpoint list
MaxDomains == 4
\* largest configured max_threads
MaxThreads == 2

(* ------------------------- program constants -------------------------- *)
\* core.py:75  max_workers = min(config.max_threads, 20)
HardCeiling == 20

Callers == 1..NumCallers
\* the coroutine running terminate() (main.py:123)
Terminator == 0 - 1

\* Album ids are strings, modelled as sequences of characters.
Digits == {"0", "1", "2", "3", "4", "5", "6", "7", "8", "9"}
GoodIds == {<<"7">>, <<"4", "2">>}
BadIds == {<<"4", "x">>}
AlbumIds == GoodIds \cup BadIds

\* str.isdigit(): non-empty and every character a digit
isdigit(s) == Len(s) > 0 /\ \A i \in 1..Len(s) : s[i] \in Digits

\* endpoint names a configuration may list, in declared order
DomainNames == <<"d1", "d2", "d3", "d4", "d5", "d6">>

Min(a, b) == IF a <= b THEN a ELSE b

\* Python slice s[lo:hi] (0-based, hi exclusive) of a sequence
PySlice(s, lo, hi) == SubSeq(s, lo + 1, Min(hi, Len(s)))

VARIABLES
    max_threads,          \* config.max_threads
    domain_list,          \* config.domain_list
    downloading_comics,   \* ComicDownloader.downloading_comics
    downloading_covers,   \* ComicDownloader.downloading_covers
    lock,                 \* ComicDownloader._lock: 0 (free) or its holder
    pool_shutdown,        \* the executor has been shut down
    loop,                 \* the coroutine that runs on the event loop, 0: none
    co,                   \* per handler: the coroutine's state
    job,                  \* per handler: the work item it submitted to the pool
    pages,                \* per album: the page folder on disk
    pdf,                  \* per album: the assembled document on disk
    cover,                \* per album: the cover file on disk
    album_dir,            \* one album folder in detail: the files it holds
    document              \* that album's document in detail: its page list

vars == <<max_threads, domain_list, downloading_comics, downloading_covers,
          lock, pool_shutdown, loop, co, job, pages, pdf, cover,
          album_dir, document>>

config == <<max_threads, domain_list>>
sets == <<downloading_comics, downloading_covers>>
disk == <<pages, pdf, cover>>
\* the album folder and document that _convert_to_pdf is examined on
folder == <<album_dir, document>>

(* --------------------------- values ----------------------------------- *)
NoId == <<>>
Ret(ok, msg) == [ok |-> ok, msg |-> msg]
NoRet == Ret(FALSE, "unset")

\* a handler that is not running; reply keeps the last thing it told the user
IdleCo == [cmd |-> "none", arg |-> NoId, pc |-> "idle", exc |-> "none",
           ret |-> NoRet, reply |-> "none", qlog |-> <<>>, fetched |-> FALSE]

\* no work item
NoJob == [st |-> "none", stage |-> "none", id |-> NoId, awaited |-> FALSE,
          idx |-> 0, attempts |-> <<>>, e |-> "none", result |-> NoRet,
          assembled |-> 0]

\* an album folder that does not exist, a document that does not exist
NoFolder == [exists |-> FALSE, files |-> {}]
NoDocument == [exists |-> FALSE, pages |-> <<>>]

\* str(e) of the exception an attempt against endpoint ep raised
ErrOf(ep) == "fetch failed: " \o ep

Init ==
    /\ max_threads \in 1..MaxThreads
    /\ domain_list \in {SubSeq(DomainNames, 1, n) : n \in 1..MaxDomains}
    /\ downloading_comics = {}
    /\ downloading_covers = {}
    /\ lock = 0
    /\ pool_shutdown = FALSE
    /\ loop = 0
    /\ co = [c \in Callers |-> IdleCo]
    /\ job = [c \in Callers |-> NoJob]
    /\ pages = [i \in AlbumIds |-> "none"]
    /\ pdf = [i \in AlbumIds |-> "none"]
    /\ cover = [i \in AlbumIds |-> "none"]
    /\ album_dir = NoFolder
    /\ document = NoDocument

(* ----------------------------- helpers -------------------------------- *)
\* os.path.exists / Path.exists of a file in one of the disk's states
Exists(f) == f # "none"
\* the file's modification time is older than the retention horizon
IsOld(f) == f = "old"

Running == {c \in Callers : job[c].st = "running"}
Active == {c \in Callers : job[c].st \in {"queued", "running"}}

(* Faulty variants of the definitions below, each the slip named in its   *)
(* comment; the claims are re-checked against them.                        *)
\* the fallback loop runs over every remaining endpoint: domain_list[1:]
FallbacksUnbounded == PySlice(domain_list, 1, Len(domain_list))
\* the re-check's result is ignored: the fetch goes ahead without space
AfterRecheckIgnored(o) == IF o = "raise" THEN "dc_finally" ELSE "dc_submit"
\* the dedup gate never finds the album
ComicBusyNever(id) == FALSE
\* covers and albums share one in-flight set
CoverBusyShared(id) == id \in downloading_covers \cup downloading_comics
\* the album is not removed on exit
DiscardedNot(set, id) == set

\* faulty variant: the pool is built with the ceiling as its size
PoolSizeCeiling == HardCeiling

\* core.py:75  the executor's max_workers
PoolSize == Min(max_threads, HardCeiling)

\* core.py:138  self.config.domain_list[1:3]
Fallbacks == PySlice(domain_list, 1, 3)

\* messages of download_comic (core.py:107, 116) and None (core.py:153)
MsgBusy == "download in progress"
MsgNoSpace == "insufficient storage space"
MsgNone == "None"

(* ----------------- StorageQuotaManager (utils.py) ---------------------- *)
\* check_storage_space(): (has_space, total) or an error of the disk walk
CheckOutcomes == {"space", "full", "raise"}

\* cleanup_old_files(): the disks an eviction pass may leave: every file it
\* deletes is older than the retention horizon; a deletion may fail
EvictResults(f) ==
    {[i \in AlbumIds |-> IF i \in D THEN "none" ELSE f[i]] :
        D \in SUBSET {i \in AlbumIds : IsOld(f[i])}}

\* core.py:112-113: where download_comic goes on the first check's outcome
AfterCheck(o) == CASE o = "space" -> "dc_submit"
                   [] o = "full" -> "dc_evict"
                   [] OTHER -> "dc_finally"

\* core.py:115-116: where it goes on the outcome of the re-check
AfterRecheck(o) == IF o = "space" THEN "dc_submit" ELSE "dc_finally"

\* core.py:106: if album_id in self.downloading_comics
ComicBusy(id) == id \in downloading_comics

\* core.py:80: if album_id in self.downloading_covers
CoverBusy(id) == id \in downloading_covers

\* faulty variant: the gate sits inside the try block, so the rejection
\* leaves through the finally block
AfterGateInTry(busy) == IF busy THEN "dc_finally" ELSE "dc_check"

\* core.py:106-110: where download_comic goes from the gate: the rejection
\* returns to cmd_download before the try block is entered
AfterGate(busy) == IF busy THEN "jm_result" ELSE "dc_check"

\* core.py:122: self.downloading_comics.discard(album_id)
Discarded(set, id) == set \ {id}

\* the handler has finished (returned, or raised into the framework) after
\* telling the user r
Replied(r) == [IdleCo EXCEPT !.reply = r]

(* --------------------- cmd_download (main.py:38) ----------------------- *)
\* main.py:38-44: the /jm command: validate the id, announce the download
CmdDownload(c, id) ==
    /\ loop = 0
    /\ ~pool_shutdown
    /\ co[c].pc = "idle"
    /\ job[c].st = "none"
    /\ co' = [co EXCEPT ![c] =
                IF ~isdigit(id)
                THEN Replied("invalid_id")
                ELSE [IdleCo EXCEPT !.cmd = "jm", !.arg = id,
                                    !.pc = "jm_started", !.reply = "started"]]
    /\ UNCHANGED <<config, folder, sets, lock, pool_shutdown, loop, job, disk>>

\* main.py:47-54: the cached-document shortcut (the send at main.py:50 awaits
\* an async generator, which raises TypeError), else enter download_comic
\* and take the lock (core.py:105)
JmCheckCache(c) ==
    /\ loop = 0
    /\ co[c].pc = "jm_started"
    /\ IF Exists(pdf[co[c].arg])
       THEN /\ co' = [co EXCEPT ![c] = Replied("cache_hit")]
            /\ UNCHANGED <<lock, loop>>
       ELSE /\ lock = 0
            /\ lock' = c
            /\ loop' = c
            /\ co' = [co EXCEPT ![c].pc = "dc_gate"]
    /\ UNCHANGED <<config, folder, sets, pool_shutdown, job, disk>>

(* ------------------- download_comic (core.py:103) ---------------------- *)
\* core.py:106-108: the dedup gate, inside `with self._lock`
DcGate(c) ==
    /\ loop = c
    /\ co[c].pc = "dc_gate"
    /\ lock = c
    /\ lock' = 0
    /\ IF ComicBusy(co[c].arg)
       THEN /\ co' = [co EXCEPT ![c].pc = AfterGate(TRUE),
                                ![c].ret = Ret(FALSE, MsgBusy)]
            /\ UNCHANGED downloading_comics
       ELSE /\ downloading_comics' = downloading_comics \cup {co[c].arg}
            /\ co' = [co EXCEPT ![c].pc = AfterGate(FALSE)]
    /\ UNCHANGED <<config, folder, downloading_covers, pool_shutdown, loop, job, disk>>

\* core.py:112-113: has_space, _ = self.rm.check_storage_space()
DcCheck(c) ==
    /\ loop = c
    /\ co[c].pc = "dc_check"
    /\ \E o \in CheckOutcomes :
         co' = [co EXCEPT ![c].qlog = Append(@, "check_" \o o),
                          ![c].pc = AfterCheck(o),
                          ![c].exc = IF o = "raise" THEN "QuotaError" ELSE @]
    /\ UNCHANGED <<config, folder, sets, lock, pool_shutdown, loop, job, disk>>

\* core.py:114: self.rm.cleanup_old_files()
DcEvict(c) ==
    /\ loop = c
    /\ co[c].pc = "dc_evict"
    /\ \/ /\ pages' \in EvictResults(pages)
          /\ pdf' \in EvictResults(pdf)
          /\ co' = [co EXCEPT ![c].qlog = Append(@, "evict"),
                              ![c].pc = "dc_recheck"]
       \/ /\ co' = [co EXCEPT ![c].qlog = Append(@, "evict"),
                              ![c].pc = "dc_finally",
                              ![c].exc = "QuotaError"]
          /\ UNCHANGED <<pages, pdf>>
    /\ UNCHANGED <<config, folder, sets, lock, pool_shutdown, loop, job, cover>>

\* core.py:115-116: the re-check after the eviction pass
DcRecheck(c) ==
    /\ loop = c
    /\ co[c].pc = "dc_recheck"
    /\ \E o \in CheckOutcomes :
         co' = [co EXCEPT ![c].qlog = Append(@, "check_" \o o),
                          ![c].pc = AfterRecheck(o),
                          ![c].ret = IF o = "full" THEN Ret(FALSE, MsgNoSpace)
                                                   ELSE @,
                          ![c].exc = IF o = "raise" THEN "QuotaError" ELSE @]
    /\ UNCHANGED <<config, folder, sets, lock, pool_shutdown, loop, job, disk>>

\* core.py:118-119: loop.run_in_executor(self._thread_pool, ...): submit the
\* work item and suspend; a pool that was shut down raises RuntimeError
DcSubmit(c) ==
    /\ loop = c
    /\ co[c].pc = "dc_submit"
    /\ IF pool_shutdown
       THEN /\ co' = [co EXCEPT ![c].pc = "dc_finally",
                                ![c].exc = "RuntimeError"]
            /\ UNCHANGED <<job, loop>>
       ELSE /\ job' = [job EXCEPT ![c] =
                         [NoJob EXCEPT !.st = "queued", !.id = co[c].arg,
                                       !.awaited = TRUE]]
            /\ co' = [co EXCEPT ![c].pc = "dc_await", ![c].qlog = <<>>]
            /\ loop' = 0
    /\ UNCHANGED <<config, folder, sets, lock, pool_shutdown, disk>>

\* some download_album call of work item j returned without raising
FetchOk(j) == \E k \in 1..Len(j.attempts) : j.attempts[k].ok

\* core.py:119: the await returns the work item's result
DcResume(c) ==
    /\ loop = 0
    /\ co[c].pc = "dc_await"
    /\ job[c].st = "done"
    /\ loop' = c
    /\ co' = [co EXCEPT ![c].pc = "dc_finally", ![c].ret = job[c].result,
                        ![c].fetched = FetchOk(job[c])]
    /\ job' = [job EXCEPT ![c] = NoJob]
    /\ UNCHANGED <<config, folder, sets, lock, pool_shutdown, disk>>

\* core.py:119: the awaiting task is cancelled: CancelledError is thrown at
\* the await; a work item not yet started is cancelled with it, a running
\* one keeps running on its thread
DcCancel(c) ==
    /\ loop = 0
    /\ co[c].pc = "dc_await"
    /\ loop' = c
    /\ co' = [co EXCEPT ![c].pc = "dc_finally", ![c].exc = "CancelledError"]
    /\ job' = [job EXCEPT ![c] =
                 IF @.st = "running" THEN [@ EXCEPT !.awaited = FALSE]
                                     ELSE NoJob]
    /\ UNCHANGED <<config, folder, sets, lock, pool_shutdown, disk>>

\* core.py:120-121: finally: with self._lock
DcFinally(c) ==
    /\ loop = c
    /\ co[c].pc = "dc_finally"
    /\ lock = 0
    /\ lock' = c
    /\ co' = [co EXCEPT ![c].pc = "dc_discard"]
    /\ UNCHANGED <<config, folder, sets, pool_shutdown, loop, job, disk>>

\* core.py:122: self.downloading_comics.discard(album_id); the lock is
\* released and download_comic returns, or the exception propagates into
\* cmd_download, which does not catch it (main.py:54)
DcDiscard(c) ==
    /\ loop = c
    /\ co[c].pc = "dc_discard"
    /\ lock = c
    /\ lock' = 0
    /\ downloading_comics' = Discarded(downloading_comics, co[c].arg)
    /\ co' = [co EXCEPT ![c].pc = IF co[c].exc # "none" THEN "jm_raised"
                                                        ELSE "jm_result"]
    /\ UNCHANGED <<config, folder, downloading_covers, pool_shutdown, loop, job, disk>>

\* main.py:54: the exception download_comic raised leaves cmd_download,
\* which has no handler for it
JmRaise(c) ==
    /\ loop = c
    /\ co[c].pc = "jm_raised"
    /\ loop' = 0
    /\ co' = [co EXCEPT ![c] = Replied("crash")]
    /\ UNCHANGED <<config, folder, sets, lock, pool_shutdown, job, disk>>

\* main.py:55-64: what cmd_download tells the user for download_comic's
\* result r when the document file is in state f
JmReply(r, f) == IF ~r.ok THEN "download_failed"
                 ELSE IF Exists(f) THEN "download_done"
                 ELSE "pdf_failed"

\* main.py:55-64: report the outcome (the send at main.py:62 awaits an async
\* generator, which raises TypeError)
JmResult(c) ==
    /\ loop = c
    /\ co[c].pc = "jm_result"
    /\ loop' = 0
    /\ co' = [co EXCEPT ![c] = Replied(JmReply(co[c].ret, pdf[co[c].arg]))]
    /\ UNCHANGED <<config, folder, sets, lock, pool_shutdown, job, disk>>

(* -------------------- _download_sync (core.py:124) --------------------- *)
\* the work item returns r: its awaiting coroutine is woken with r; nobody
\* reads the result of a work item whose awaiting task was cancelled
Finished(j, r) ==
    IF j.awaited THEN [j EXCEPT !.st = "done", !.stage = "none", !.result = r]
                 ELSE NoJob

\* one jmcomic.download_album call against endpoint ep
Attempted(j, ep, ok) == [j EXCEPT !.attempts = Append(@, [ep |-> ep, ok |-> ok])]

\* faulty variant: the exception of the last attempt is the one returned
ExhaustedLast(j) ==
    Finished(j, Ret(FALSE, ErrOf(j.attempts[Len(j.attempts)].ep)))

\* faulty variant: `raise e` is missing, the flow falls through to the
\* document conversion
ExhaustedConverts(j) == [j EXCEPT !.stage = "convert"]

\* core.py:148-149, 155-157: `raise e` of the primary attempt's exception,
\* caught by the outer handler and returned as (False, str(e))
Exhausted(j) == Finished(j, Ret(FALSE, j.e))

\* the page folder after a download_album call that reported success: the
\* backend wrote pages, or reported success without writing any (an album
\* without pages; pages already on disk, which "cache": True at core.py:44
\* tells it to keep)
PagesAfterFetch(f) == {f, "fresh"}

\* a pool thread takes the work item from the queue
JobStart(c) ==
    /\ job[c].st = "queued"
    /\ Cardinality(Running) < PoolSize
    /\ job' = [job EXCEPT ![c].st = "running", ![c].stage = "primary"]
    /\ UNCHANGED <<config, folder, sets, lock, pool_shutdown, loop, co, disk>>

\* core.py:131-136: jmcomic.download_album(album_id, option)
JobPrimary(c) ==
    /\ job[c].st = "running"
    /\ job[c].stage = "primary"
    /\ \/ /\ \E f \in PagesAfterFetch(pages[job[c].id]) :
                pages' = [pages EXCEPT ![job[c].id] = f]
          /\ job' = [job EXCEPT ![c] =
                       [Attempted(@, "primary", TRUE) EXCEPT !.stage = "convert"]]
       \/ /\ LET j == [Attempted(job[c], "primary", FALSE)
                         EXCEPT !.e = ErrOf("primary")]
             IN job' = [job EXCEPT ![c] =
                          IF Fallbacks = <<>>
                          THEN Exhausted(j)
                          ELSE [j EXCEPT !.stage = "fallback", !.idx = 1]]
          /\ UNCHANGED pages
    /\ UNCHANGED <<config, folder, sets, lock, pool_shutdown, loop, co, pdf, cover>>

\* core.py:138-149: one iteration of the fallback loop, pinned to one domain
JobFallback(c) ==
    /\ job[c].st = "running"
    /\ job[c].stage = "fallback"
    /\ LET domain == Fallbacks[job[c].idx] IN
       \/ /\ \E f \in PagesAfterFetch(pages[job[c].id]) :
                pages' = [pages EXCEPT ![job[c].id] = f]
          /\ job' = [job EXCEPT ![c] =
                       [Attempted(@, domain, TRUE) EXCEPT !.stage = "convert"]]
       \/ /\ LET j == Attempted(job[c], domain, FALSE)
             IN job' = [job EXCEPT ![c] =
                          IF job[c].idx = Len(Fallbacks)
                          THEN Exhausted(j)
                          ELSE [j EXCEPT !.idx = @ + 1]]
          /\ UNCHANGED pages
    /\ UNCHANGED <<config, folder, sets, lock, pool_shutdown, loop, co, pdf, cover>>

(* -------------------- _convert_to_pdf (core.py:159) -------------------- *)
\* core.py:161-168: resolve the folder, list the pages, open the document
\* for writing (which truncates it); any of these may raise, and the
\* exception is caught at core.py:155
JobConvert(c) ==
    /\ job[c].st = "running"
    /\ job[c].stage = "convert"
    /\ LET j == [job[c] EXCEPT !.assembled = @ + 1] IN
       \/ /\ ~Exists(pages[j.id])
          /\ job' = [job EXCEPT ![c] = Finished(j, Ret(TRUE, MsgNone))]
          /\ UNCHANGED pdf
       \/ /\ Exists(pages[j.id])
          /\ pdf' = [pdf EXCEPT ![j.id] = "partial"]
          /\ job' = [job EXCEPT ![c] = [j EXCEPT !.stage = "write"]]
       \/ /\ job' = [job EXCEPT ![c] =
                       Finished(j, Ret(FALSE, "assembly failed"))]
          /\ UNCHANGED pdf
    /\ UNCHANGED <<config, folder, sets, lock, pool_shutdown, loop, co, pages, cover>>

\* core.py:169: f.write(img2pdf.convert(...)): reads the listed pages; it
\* raises when they are gone or cannot be converted, and leaves the
\* truncated document behind
JobWrite(c) ==
    /\ job[c].st = "running"
    /\ job[c].stage = "write"
    /\ \/ /\ Exists(pages[job[c].id])
          /\ pdf' = [pdf EXCEPT ![job[c].id] = "fresh"]
          /\ job' = [job EXCEPT ![c] = Finished(@, Ret(TRUE, MsgNone))]
       \/ /\ job' = [job EXCEPT ![c] =
                       Finished(@, Ret(FALSE, "assembly failed"))]
          /\ UNCHANGED pdf
    /\ UNCHANGED <<config, folder, sets, lock, pool_shutdown, loop, co, pages, cover>>

(* ------------- _convert_to_pdf in detail (core.py:159) ----------------- *)
\* File names are strings, modelled as sequences of characters.
\* ord(): the code points of the characters that occur in the names
ord == ("." :> 46) @@ ("0" :> 48) @@ ("1" :> 49) @@ ("2" :> 50) @@
       ("9" :> 57) @@ ("g" :> 103) @@ ("j" :> 106) @@ ("n" :> 110) @@
       ("p" :> 112) @@ ("t" :> 116) @@ ("x" :> 120)

\* the files an album folder may hold: pages of both suffixes, a page whose
\* number has fewer digits, and a file that is not an image
FileNames ==
    { <<"0", "0", "1", ".", "j", "p", "g">>,
      <<"0", "0", "2", ".", "j", "p", "g">>,
      <<"0", "1", "0", ".", "j", "p", "g">>,
      <<"0", "0", "2", ".", "p", "n", "g">>,
      <<"9", ".", "j", "p", "g">>,
      <<"n", ".", "t", "x", "t">> }

\* the page list of a document that an earlier download assembled
PriorPages == << <<"0", "1", "0", ".", "j", "p", "g">>,
                 <<"0", "0", "1", ".", "j", "p", "g">> >>

\* Python's str.__lt__ (which orders the Paths of one folder): compare code
\* point by code point; a proper prefix is smaller
RECURSIVE StrLt(_, _)
StrLt(a, b) ==
    IF b = <<>> THEN FALSE
    ELSE IF a = <<>> THEN TRUE
    ELSE IF ord[Head(a)] # ord[Head(b)] THEN ord[Head(a)] < ord[Head(b)]
    ELSE StrLt(Tail(a), Tail(b))

\* fnmatch of name against "*" + suffix
Matches(name, suffix) ==
    /\ Len(name) >= Len(suffix)
    /\ SubSeq(name, Len(name) - Len(suffix) + 1, Len(name)) = suffix

\* album_dir.glob("*" + suffix): the matching files, in the order the
\* directory scan happens to yield them
glob(files, suffix) ==
    LET S == {n \in files : Matches(n, suffix)}
    IN {s \in [1..Cardinality(S) -> S] : \A i, k \in DOMAIN s : i # k => s[i] # s[k]}

\* insert x into the ascending sequence s, after the elements not above it
RECURSIVE Insert(_, _)
Insert(x, s) ==
    IF s = <<>> THEN <<x>>
    ELSE IF StrLt(x, Head(s)) THEN <<x>> \o s
    ELSE <<Head(s)>> \o Insert(x, Tail(s))

\* faulty variant: the listing is used in the order the scans returned it
unsorted(s) == s

\* core.py:164: sorted(...), a stable sort by StrLt
RECURSIVE sorted(_)
sorted(s) == IF s = <<>> THEN <<>> ELSE Insert(s[Len(s)], sorted(SubSeq(s, 1, Len(s) - 1)))

\* core.py:159-170: _convert_to_pdf on the folder: return when the folder or
\* the page list is missing; else open the document for writing and write
\* the pages in list order, or leave it truncated when img2pdf raises
ConvertToPdf ==
    /\ IF ~album_dir.exists
       THEN UNCHANGED document
       ELSE \E jpg \in glob(album_dir.files, <<".", "j", "p", "g">>),
               png \in glob(album_dir.files, <<".", "p", "n", "g">>) :
              LET image_files == sorted(jpg \o png) IN
              IF image_files = <<>>
              THEN UNCHANGED document
              ELSE \/ document' = [exists |-> TRUE, pages |-> image_files]
                   \/ document' = [exists |-> TRUE, pages |-> <<>>]
    /\ UNCHANGED <<config, sets, lock, pool_shutdown, loop, co, job, disk,
                   album_dir>>

(* ----------------------- cmd_info (main.py:67) ------------------------- *)
\* main.py:69-74: the /jminfo command: fetch the album's details (an error
\* is caught at main.py:86), then call download_cover
CmdInfo(c, id) ==
    /\ loop = 0
    /\ ~pool_shutdown
    /\ co[c].pc = "idle"
    /\ job[c].st = "none"
    /\ \/ /\ co' = [co EXCEPT ![c] =
                      [IdleCo EXCEPT !.cmd = "jminfo", !.arg = id,
                                     !.pc = "cv_gate"]]
          /\ loop' = c
       \/ /\ co' = [co EXCEPT ![c] = Replied("info_failed")]
          /\ UNCHANGED loop
    /\ UNCHANGED <<config, folder, sets, lock, pool_shutdown, job, disk>>

(* ------------------- download_cover (core.py:79) ----------------------- *)
\* core.py:80-83: the cover dedup gate (no lock is taken)
CvGate(c) ==
    /\ loop = c
    /\ co[c].pc = "cv_gate"
    /\ IF CoverBusy(co[c].arg)
       THEN /\ co' = [co EXCEPT ![c].pc = "ci_result",
                                ![c].ret = Ret(FALSE, "cover in progress")]
            /\ UNCHANGED downloading_covers
       ELSE /\ downloading_covers' = downloading_covers \cup {co[c].arg}
            /\ co' = [co EXCEPT ![c].pc = "cv_detail"]
    /\ UNCHANGED <<config, folder, downloading_comics, lock, pool_shutdown, loop, job,
                   disk>>

\* core.py:85-90: get_album_detail, get_photo_detail, get_cover_path
CvDetail(c) ==
    /\ loop = c
    /\ co[c].pc = "cv_detail"
    /\ \E o \in {"ok", "missing", "raise"} :
         co' = [co EXCEPT ![c].pc = IF o = "ok" THEN "cv_delete"
                                                ELSE "cv_finally",
                          ![c].ret = CASE o = "missing" -> Ret(FALSE, "no such album")
                                       [] o = "raise" -> Ret(FALSE, "cover failed")
                                       [] OTHER -> @]
    /\ UNCHANGED <<config, folder, sets, lock, pool_shutdown, loop, job, disk>>

\* core.py:93: if os.path.exists(cover_path): os.remove(cover_path)
CvDelete(c) ==
    /\ loop = c
    /\ co[c].pc = "cv_delete"
    /\ cover' = [cover EXCEPT ![co[c].arg] = "none"]
    /\ co' = [co EXCEPT ![c].pc = "cv_download"]
    /\ UNCHANGED <<config, folder, sets, lock, pool_shutdown, loop, job, pages, pdf>>

\* core.py:96-99: client.download_by_image_detail(image, cover_path)
CvDownload(c) ==
    /\ loop = c
    /\ co[c].pc = "cv_download"
    /\ \/ /\ cover' = [cover EXCEPT ![co[c].arg] = "fresh"]
          /\ co' = [co EXCEPT ![c].pc = "cv_finally",
                              ![c].ret = Ret(TRUE, "cover_path")]
       \/ /\ co' = [co EXCEPT ![c].pc = "cv_finally",
                              ![c].ret = Ret(FALSE, "cover failed")]
          /\ UNCHANGED cover
    /\ UNCHANGED <<config, folder, sets, lock, pool_shutdown, loop, job, pages, pdf>>

\* core.py:100-101: finally: self.downloading_covers.discard(album_id)
CvFinally(c) ==
    /\ loop = c
    /\ co[c].pc = "cv_finally"
    /\ downloading_covers' = downloading_covers \ {co[c].arg}
    /\ co' = [co EXCEPT ![c].pc = "ci_result"]
    /\ UNCHANGED <<config, folder, downloading_comics, lock, pool_shutdown, loop, job,
                   disk>>

\* main.py:75-87: build the reply, with the cover when it is on disk and
\* show_cover is set; an error is caught at main.py:86.  The command is
\* over: the cover it fetched is an old one for every later command
CiResult(c) ==
    /\ loop = c
    /\ co[c].pc = "ci_result"
    /\ loop' = 0
    /\ \E r \in {"info", "info_failed"} \cup
                (IF Exists(cover[co[c].arg]) THEN {"info_with_cover"} ELSE {}) :
         co' = [co EXCEPT ![c] = Replied(r)]
    /\ cover' = [cover EXCEPT ![co[c].arg] = IF @ = "fresh" THEN "stale" ELSE @]
    /\ UNCHANGED <<config, folder, sets, lock, pool_shutdown, job, pages, pdf>>

(* ------------------ terminate / shutdown (main.py:123) ----------------- *)
\* core.py:178-179: self._thread_pool.shutdown(wait=True), called on the
\* event loop: it blocks the loop until every work item has finished
TermShutdown ==
    /\ loop = 0
    /\ ~pool_shutdown
    /\ pool_shutdown' = TRUE
    /\ loop' = Terminator
    /\ UNCHANGED <<config, folder, sets, lock, co, job, disk>>

\* shutdown(wait=True) returns once no work item is queued or running
TermJoined ==
    /\ loop = Terminator
    /\ Active = {}
    /\ loop' = 0
    /\ UNCHANGED <<config, folder, sets, lock, pool_shutdown, co, job, disk>>

\* the steps of handler c's /jm command and of its work item, but for the
\* cancellation of its task
Download(c) ==
    \/ \E id \in AlbumIds : CmdDownload(c, id)
    \/ JmCheckCache(c)
    \/ DcGate(c)
    \/ DcCheck(c)
    \/ DcEvict(c)
    \/ DcRecheck(c)
    \/ DcSubmit(c)
    \/ DcResume(c)
    \/ DcFinally(c)
    \/ DcDiscard(c)
    \/ JmResult(c)
    \/ JmRaise(c)
    \/ JobStart(c)
    \/ JobPrimary(c)
    \/ JobFallback(c)
    \/ JobConvert(c)
    \/ JobWrite(c)

\* the steps of handler c's /jminfo command
Info(c) ==
    \/ \E id \in AlbumIds : CmdInfo(c, id)
    \/ CvGate(c)
    \/ CvDetail(c)
    \/ CvDelete(c)
    \/ CvDownload(c)
    \/ CvFinally(c)
    \/ CiResult(c)

(* Spec: the /jm command, the worker pool, task cancellation and the       *)
(* plugin's unloading, for every configuration within the bounds.          *)
Next ==
    \/ \E c \in Callers : Download(c) \/ DcCancel(c)
    \/ TermShutdown
    \/ TermJoined

Spec == Init /\ [][Next]_vars

(* SpecCover: the /jm and /jminfo commands side by side, with no task      *)
(* cancelled and the plugin loaded, under the configuration with the       *)
(* largest pool and one fallback endpoint.                                 *)
InitCover ==
    /\ Init
    /\ max_threads = MaxThreads
    /\ Len(domain_list) = 2

NextCover ==
    \E c \in Callers : Download(c) \/ Info(c)

SpecCover == InitCover /\ [][NextCover]_vars

(* SpecAssemble: _convert_to_pdf applied to every album folder made of    *)
(* the files of FileNames, with and without an earlier document.           *)
InitAssemble ==
    /\ max_threads = MaxThreads
    /\ domain_list = SubSeq(DomainNames, 1, 2)
    /\ downloading_comics = {}
    /\ downloading_covers = {}
    /\ lock = 0
    /\ pool_shutdown = FALSE
    /\ loop = 0
    /\ co = [c \in Callers |-> IdleCo]
    /\ job = [c \in Callers |-> NoJob]
    /\ pages = [i \in AlbumIds |-> "none"]
    /\ pdf = [i \in AlbumIds |-> "none"]
    /\ cover = [i \in AlbumIds |-> "none"]
    /\ album_dir \in {NoFolder} \cup
                     {[exists |-> TRUE, files |-> F] : F \in SUBSET FileNames}
    /\ document \in {NoDocument, [exists |-> TRUE, pages |-> PriorPages]}

NextAssemble == ConvertToPdf

SpecAssemble == InitAssemble /\ [][NextAssemble]_vars

(* SpecLive: Next under the scheduling the code runs on.  The event loop   *)
(* runs a coroutine that is ready (one that holds the loop runs on; one     *)
(* whose await has completed is resumed from the loop's FIFO ready queue),  *)
(* and the executor hands queued work items to free threads in FIFO order;  *)
(* every backend call and the assembly return or raise.  Commands,          *)
(* cancellations and the unloading of the plugin are under no obligation.   *)
\* the steps of handler c's coroutine between two suspensions
Runs(c) ==
    \/ DcGate(c)
    \/ DcCheck(c)
    \/ DcEvict(c)
    \/ DcRecheck(c)
    \/ DcSubmit(c)
    \/ DcFinally(c)
    \/ DcDiscard(c)
    \/ JmResult(c)
    \/ JmRaise(c)

\* the steps of the pool thread that runs handler c's work item
Works(c) ==
    \/ JobPrimary(c)
    \/ JobFallback(c)
    \/ JobConvert(c)
    \/ JobWrite(c)

Fairness ==
    /\ \A c \in Callers :
          /\ WF_vars(Runs(c))
          /\ WF_vars(Works(c))
          /\ SF_vars(JobStart(c))
          /\ SF_vars(DcResume(c))
          /\ SF_vars(JmCheckCache(c))
    /\ WF_vars(TermJoined)

\* the configuration with a single pool thread, so that a work item can
\* wait in the queue, and one fallback endpoint
InitLive ==
    /\ Init
    /\ max_threads = 1
    /\ Len(domain_list) = 2

\* the commands name one album, or a malformed id
LiveIds == {<<"7">>, <<"4", "x">>}

NextLive ==
    \/ \E c \in Callers :
          \/ \E id \in LiveIds : CmdDownload(c, id)
          \/ Runs(c)
          \/ Works(c)
          \/ JmCheckCache(c)
          \/ JobStart(c)
          \/ DcResume(c)
          \/ DcCancel(c)
    \/ TermShutdown
    \/ TermJoined

SpecLive == InitLive /\ [][NextLive]_vars /\ Fairness

(* SpecEvict: the /jm command on a disk that holds page folders of earlier *)
(* downloads, older than the retention horizon and without a document (the  *)
(* download failed after some pages were written, or the document has been  *)
(* removed), under the configuration of SpecCover.                          *)
InitEvict ==
    /\ max_threads = MaxThreads
    /\ domain_list = SubSeq(DomainNames, 1, 2)
    /\ downloading_comics = {}
    /\ downloading_covers = {}
    /\ lock = 0
    /\ pool_shutdown = FALSE
    /\ loop = 0
    /\ co = [c \in Callers |-> IdleCo]
    /\ job = [c \in Callers |-> NoJob]
    /\ pages \in {f \in [AlbumIds -> {"none", "old"}] :
                    \A i \in BadIds : f[i] = "none"}
    /\ pdf = [i \in AlbumIds |-> "none"]
    /\ cover = [i \in AlbumIds |-> "none"]
    /\ album_dir = NoFolder
    /\ document = NoDocument

NextEvict == \E c \in Callers : Download(c)

SpecEvict == InitEvict /\ [][NextEvict]_vars

(* ======================================================================= *)
(*                               Claims                                    *)
(* ======================================================================= *)

\* handler c is inside download_comic, past the dedup gate and before its
\* return: its request is in flight
InFlight(c) ==
    co[c].pc \in {"dc_check", "dc_evict", "dc_recheck", "dc_submit",
                  "dc_await", "dc_finally", "dc_discard"}

\* handler c's download_comic call has returned after passing the gate
Returned(c) == co[c].pc = "jm_result" /\ co[c].ret.msg # MsgBusy

\* the work items that fetch album id: queued or running on the pool
FetchesFor(id) ==
    {c \in Callers : job[c].st \in {"queued", "running"} /\ job[c].id = id}

(* ------------------------------- C1 ------------------------------------ *)
\* C1: a download_comic call that reaches the dedup gate while another
\* handler's call for the same album is in flight returns (False, "download
\* in progress") in that very step: it makes no quota call, submits no work
\* item and leaves every work item (so every fetch-attempt count) as it was.
C1_DuplicateRejected ==
    [][\A c \in Callers :
          (/\ co[c].pc = "dc_gate"
           /\ co'[c] # co[c]
           /\ \E d \in Callers \ {c} : InFlight(d) /\ co[d].arg = co[c].arg)
          => (/\ co'[c].pc = "jm_result"
              /\ co'[c].ret = Ret(FALSE, MsgBusy)
              /\ co'[c].qlog = <<>>
              /\ job' = job
              /\ downloading_comics' = downloading_comics)]_vars

\* a second call was rejected while the first is still awaiting its fetch
C1_Witness ==
    \E c, d \in Callers :
        /\ c # d
        /\ co[c].pc = "jm_result"
        /\ co[c].ret = Ret(FALSE, MsgBusy)
        /\ co[d].pc = "dc_await"
        /\ co[d].arg = co[c].arg
        /\ job[d].attempts # <<>>

(* ------------------------------- C2 ------------------------------------ *)
\* C2: in every state and for every album, at most one fetch (a queued or
\* running work item) exists for it, and while one exists the album is in
\* downloading_comics.
C2_OneFetchHoldsMembership ==
    \A id \in AlbumIds :
        /\ Cardinality(FetchesFor(id)) <= 1
        /\ FetchesFor(id) # {} => id \in downloading_comics

(* ------------------------------- C3 ------------------------------------ *)
\* C3: when a download_comic call that passed the gate has returned a
\* result or raised (success, fetch failure, capacity error, an error of
\* the backend, the quota manager or the hand-off), its album is not in
\* downloading_comics.
C3_ReleasedOnExit ==
    \A c \in Callers :
        (Returned(c) \/ co[c].pc = "jm_raised")
            => co[c].arg \notin downloading_comics

\* a call has just left through an exception, another through a result
C3_Witness ==
    \E c \in Callers :
        /\ co[c].pc = "jm_raised"
        /\ co[c].exc \in {"QuotaError", "RuntimeError"}
        /\ co[c].arg \notin downloading_comics

(* ------------------------------- C4 ------------------------------------ *)
\* the quota-manager calls of one request that the gate lets through to
\* the fetch, and those that end in the capacity error
QuotaPassed == {<<"check_space">>, <<"check_full", "evict", "check_space">>}
QuotaRefused == <<"check_full", "evict", "check_full">>

\* every log the quota gate may have written: one check, and one eviction
\* followed by one re-check only after a check that returned false
QuotaLogs ==
    {<<>>, <<"check_space">>, <<"check_raise">>, <<"check_full">>,
     <<"check_full", "evict">>}
    \cup {<<"check_full", "evict", "check_" \o o>> : o \in CheckOutcomes}

\* C4: a work item (the only place fetch attempts are made) is submitted
\* only by a request whose quota check returned true, at once or on the
\* re-check after exactly one eviction; a request whose re-check is still
\* false returns the capacity error and has no work item; no request evicts
\* after a passing check or more than once.
C4_QuotaGate ==
    /\ [][\A c \in Callers :
            (job[c].st = "none" /\ job'[c].st # "none")
                => (InFlight(c) /\ co[c].qlog \in QuotaPassed)]_vars
    /\ [](\A c \in Callers :
            /\ co[c].qlog \in QuotaLogs
            /\ (co[c].qlog = QuotaRefused /\ co[c].pc # "dc_recheck")
                   => /\ co[c].ret = Ret(FALSE, MsgNoSpace)
                      /\ co[c].pc \in {"dc_finally", "dc_discard", "jm_result"}
                      /\ job[c].st = "none"
            /\ co[c].ret = Ret(FALSE, MsgNoSpace) => co[c].qlog = QuotaRefused
            /\ job[c].attempts # <<>> => job[c].st \in {"running", "done"})

\* a request passed the gate on the re-check after its one eviction
C4_Witness ==
    \E c \in Callers :
        /\ co[c].pc = "dc_submit"
        /\ co[c].qlog = <<"check_full", "evict", "check_space">>

(* ------------------------------- C5 ------------------------------------ *)
\* C5: a request whose primary attempt and first fallback failed and whose
\* second fallback succeeded returns success, and the error it kept is the
\* primary attempt's.
C5_SecondFallbackSucceeds ==
    \A c \in Callers :
        LET a == job[c].attempts IN
        (/\ job[c].st = "done"
         /\ Len(a) = 3
         /\ ~a[1].ok /\ ~a[2].ok /\ a[3].ok)
            => (job[c].result.ok /\ job[c].e = ErrOf("primary"))

(* ------------------------------- C6 ------------------------------------ *)
\* str(e) of the exceptions the fallback attempts may raise
FallbackErrors == {ErrOf(domain_list[k]) : k \in 1..Len(domain_list)}

\* C6: a request all of whose attempts failed (the primary and every
\* fallback, or the primary alone when there is no fallback) returns
\* (False, the primary attempt's error); no result of _download_sync or of
\* download_comic carries a fallback attempt's error.
C6_PrimaryErrorSurfaced ==
    \A c \in Callers :
        /\ (job[c].st = "done" /\ ~FetchOk(job[c]))
               => job[c].result = Ret(FALSE, ErrOf("primary"))
        /\ job[c].result.msg \notin FallbackErrors
        /\ co[c].ret.msg \notin FallbackErrors

\* the primary attempt and two fallbacks have failed and the result is in
C6_Witness ==
    \E c \in Callers :
        /\ job[c].st = "done"
        /\ Len(job[c].attempts) = 3
        /\ ~FetchOk(job[c])
        /\ job[c].result = Ret(FALSE, ErrOf("primary"))

(* ------------------------------- C7 ------------------------------------ *)
\* C7: the attempts of one request are at most three; the first is the
\* primary attempt; the k-th (k = 2, 3) is pinned to the k-th entry of the
\* endpoint list; every attempt but the last one failed (a fallback follows
\* only failures, nothing follows a success); no entry past the third is
\* attempted.
C7_FailoverPolicy ==
    \A c \in Callers :
        LET a == job[c].attempts IN
        /\ Len(a) <= 3
        /\ \A k \in 1..Len(a) :
              /\ k = 1 => a[k].ep = "primary"
              /\ k > 1 => (k <= Len(domain_list) /\ a[k].ep = domain_list[k])
              /\ k < Len(a) => ~a[k].ok

\* every attempt failed under a list of more than three endpoints
C7_Witness ==
    \E c \in Callers :
        /\ Len(domain_list) > 3
        /\ job[c].st = "done"
        /\ Len(job[c].attempts) = 3
        /\ ~FetchOk(job[c])

(* ------------------------------- C8 ------------------------------------ *)
\* C8: when handler c reports a request whose fetch succeeded but whose
\* document was not produced (the assembly raised, or wrote nothing), it
\* tells the user "download completed but document generation failed".
C8_AssemblyDegradationDistinct ==
    [][\A c \in Callers :
          (/\ co[c].pc = "jm_result"
           /\ co'[c].pc = "idle"
           /\ co[c].fetched
           /\ (~co[c].ret.ok \/ ~Exists(pdf[co[c].arg])))
          => co'[c].reply = "pdf_failed"]_vars

(* ------------------------------- C9 ------------------------------------ *)
\* C9, at the hand-off to the worker pool: the error run_in_executor raises
\* does not leave download_comic as an exception.
C9_NoErrorEscapes ==
    \A c \in Callers :
        ~(co[c].pc = "jm_raised" /\ co[c].exc = "RuntimeError")

(* ------------------------------- C10 ----------------------------------- *)
CoverPcs == {"cv_gate", "cv_detail", "cv_delete", "cv_download", "cv_finally",
             "ci_result"}

\* C10: download_cover is rejected only for a cover fetch in flight and
\* download_comic only for an album fetch in flight; a handler inside the
\* cover flow can always take its next step, whatever downloads are in
\* flight; only the steps of download_comic change downloading_comics and
\* only those of download_cover change downloading_covers.
C10_CoverIndependent ==
    /\ [][\A c \in Callers :
            /\ (co[c].pc = "cv_gate" /\ co'[c].pc = "ci_result")
                   => co[c].arg \in downloading_covers
            /\ (co[c].pc = "dc_gate" /\ co'[c].pc = "jm_result")
                   => co[c].arg \in downloading_comics]_vars
    /\ [][/\ downloading_comics' # downloading_comics
             => \E c \in Callers : loop = c /\ co[c].pc \in {"dc_gate", "dc_discard"}
          /\ downloading_covers' # downloading_covers
             => \E c \in Callers : loop = c /\ co[c].pc \in {"cv_gate", "cv_finally"}]_vars
    /\ [](\A c \in Callers : co[c].pc \in CoverPcs => ENABLED Info(c))

\* a cover was fetched while the same album's download is in flight
C10_Witness ==
    \E c, d \in Callers :
        /\ co[c].pc = "ci_result"
        /\ co[c].ret.ok
        /\ co[d].pc = "dc_await"
        /\ co[d].arg = co[c].arg
        /\ job[d].st = "running"

(* ------------------------------- C11 ----------------------------------- *)
\* C11: when download_cover has returned to cmd_info, the album's cover
\* file is not the stale one of an earlier command: the file that was there
\* has been deleted and, if a file is present, it is the fresh one.
C11_StaleCoverReplaced ==
    \A c \in Callers :
        (co[c].pc = "ci_result" /\ co[c].ret.msg # "cover in progress")
            => cover[co[c].arg] # "stale"

(* ------------------------------- C12 ----------------------------------- *)
\* C12: every album id a command handler is working with (the argument of
\* get_album_detail, download_cover, download_comic, get_pdf_path) has
\* passed str.isdigit().
C12_OnlyValidatedIds ==
    \A c \in Callers : co[c].cmd # "none" => isdigit(co[c].arg)

(* ------------------------------- C13 ----------------------------------- *)
\* name a comes before name b in lexical order: they agree up to some
\* position, where a has ended and b has not, or a's character is smaller
LexBefore(a, b) ==
    \E k \in 1..(Len(b)) :
        /\ \A i \in 1..(k - 1) : i <= Len(a) /\ a[i] = b[i]
        /\ Len(a) >= k - 1
        /\ (Len(a) = k - 1 \/ ord[a[k]] < ord[b[k]])

\* the page image files of the folder: the names ending in .jpg or .png
PageFiles ==
    {n \in album_dir.files :
        /\ Len(n) > 4
        /\ SubSeq(n, Len(n) - 3, Len(n)) \in {<<".", "j", "p", "g">>,
                                               <<".", "p", "n", "g">>}}

\* C13: _convert_to_pdf changes the document only when the folder exists and
\* holds page image files, and the page list it then writes holds every page
\* image file of the folder once, each before the ones that follow it in
\* lexical order of file name; with no folder or no page file the document
\* stays what it was.
C13_PagesInLexicalOrder ==
    [][document' # document =>
          /\ album_dir.exists
          /\ PageFiles # {}
          /\ document'.exists
          /\ document'.pages # <<>> =>
                /\ Len(document'.pages) = Cardinality(PageFiles)
                /\ {document'.pages[i] : i \in 1..Len(document'.pages)} = PageFiles
                /\ \A i \in 1..(Len(document'.pages) - 1) :
                      LexBefore(document'.pages[i], document'.pages[i + 1])]_vars

\* the five pages of both suffixes were assembled over an earlier document
C13_Witness ==
    /\ album_dir.files = FileNames
    /\ document.exists
    /\ document.pages = << <<"0", "0", "1", ".", "j", "p", "g">>,
                           <<"0", "0", "2", ".", "j", "p", "g">>,
                           <<"0", "0", "2", ".", "p", "n", "g">>,
                           <<"0", "1", "0", ".", "j", "p", "g">>,
                           <<"9", ".", "j", "p", "g">> >>

(* ------------------------------- C14 ----------------------------------- *)
\* C14: a work item calls _convert_to_pdf at most once; it calls it only
\* after one of its download_album calls returned, and it has called it
\* exactly once by the time it hands a result back when some attempt
\* succeeded, and not at all when every attempt failed.  A request that was
\* rejected or refused has no work item, so no assembly.
C14_AssemblyExactlyOnce ==
    \A c \in Callers :
        LET j == job[c] IN
        /\ j.assembled <= 1
        /\ j.assembled = 1 => FetchOk(j)
        /\ j.stage = "convert" => (j.assembled = 0 /\ FetchOk(j))
        /\ j.stage = "write" => j.assembled = 1
        /\ j.st = "done" => (j.assembled = 1 <=> FetchOk(j))
        /\ (co[c].ret.msg \in {MsgBusy, MsgNoSpace}) => j.st = "none"

\* the primary attempt failed, a fallback succeeded, the assembly has run
\* once and the result is ready
C14_Witness ==
    \E c \in Callers :
        /\ job[c].st = "done"
        /\ Len(job[c].attempts) = 2
        /\ job[c].attempts[2].ok
        /\ job[c].assembled = 1
        /\ job[c].result.ok

(* ------------------------------- C15 ----------------------------------- *)
\* C15: an album that is in downloading_comics eventually leaves it, so the
\* dedup gate does not reject requests for it forever.
C15_EventuallyReleased ==
    \A id \in LiveIds :
        (id \in downloading_comics) ~> (id \notin downloading_comics)

\* an album is in the set while its fetch waits for a free pool thread
C15_Witness ==
    \E c, d \in Callers :
        /\ job[c].st = "queued"
        /\ job[d].st = "running"
        /\ job[c].id \in downloading_comics

(* ------------------------------- C16 ----------------------------------- *)
\* C16: every step of a download_comic call that the dedup gate rejects (the
\* gate step and the return to the user) leaves downloading_comics and the
\* disk as they were and makes no quota call; and the album of every
\* request in flight is in downloading_comics, so the gate, which tests
\* just that, rejects every further request for it.
C16_RejectionKeepsMembership ==
    /\ [][\A c \in Callers :
            (/\ co'[c] # co[c]
             /\ \/ co[c].pc = "dc_gate" /\ co[c].arg \in downloading_comics
                \/ co[c].pc = "jm_result" /\ co[c].ret = Ret(FALSE, MsgBusy))
            => (/\ downloading_comics' = downloading_comics
                /\ disk' = disk
                /\ co[c].qlog = <<>>
                /\ co'[c].qlog = <<>>
                /\ co'[c].pc \in {"jm_result", "idle"})]_vars
    /\ [](\A d \in Callers : InFlight(d) => co[d].arg \in downloading_comics)

\* a request has been rejected and has left the critical section, and the
\* request in flight, whose work item is still queued, holds its membership
C16_Witness ==
    \E c, d \in Callers :
        /\ co[c].pc = "jm_result"
        /\ co[c].ret = Ret(FALSE, MsgBusy)
        /\ lock = 0
        /\ co[d].pc = "dc_await"
        /\ job[d].st = "queued"
        /\ co[d].arg = co[c].arg
        /\ co[d].arg \in downloading_comics

(* ------------------------------- C17 ----------------------------------- *)
\* C17: every step that adds an album to or removes it from
\* downloading_comics or downloading_covers is taken by the holder of
\* _lock.
C17_MutatedUnderLock ==
    [][(\/ downloading_comics' # downloading_comics
        \/ downloading_covers' # downloading_covers)
       => (lock # 0 /\ lock = loop)]_vars

(* ------------------------------- C18 ----------------------------------- *)
\* C18: cmd_download takes the document of an album for a usable one (the
\* cached one it announces and sends, or the downloaded one) only in a
\* state where no work item has that document open for writing.
C18_NoUnfinishedDocumentUsed ==
    [][\A c \in Callers :
          (/\ co[c].pc \in {"jm_started", "jm_result"}
           /\ co'[c].reply \in {"cache_hit", "download_done"})
          => pdf[co[c].arg] # "partial"]_vars

C20_EvictionSparesInFlight ==
    [][\A c, d \in Callers :
          (/\ co[c].pc = "dc_evict"
           /\ co'[c].pc # "dc_evict"
           /\ d # c
           /\ job[d].st = "running"
           /\ FetchOk(job[d])
           /\ job[d].id # co[c].arg)
          => (/\ pages'[job[d].id] = pages[job[d].id]
              /\ pdf'[job[d].id] = pdf[job[d].id])]_vars

====
